---- MODULE Spec2Model ----
(***************************************************************************)
(* Vocabulary building, IDF computation and the DUET hdf5 export of        *)
(* duet-v2-pytorch (src/util/text.py, src/preprocessing/hdf5_savers.py).   *)
(*                                                                         *)
(* Four specifications share the module:                                   *)
(*   Spec      - build_vocab, called twice on the same arguments;          *)
(*   SpecIdf   - compute_idfs;                                             *)
(*   SpecSaver - the construction of a DuetHhdf5Saver, encoding included;  *)
(*   SpecTrain - the training export of a constructed saver.               *)
(* A text is identified with the token list tokenizer.tokenize returns for *)
(* it (the tokenizer is an external collaborator).                         *)
(***************************************************************************)
EXTENDS Integers, Sequences, FiniteSets

VARIABLES
    pc,               \* position of the controlling thread
    pool,             \* "none" | "open" | "closed": the multiprocessing Pool
    completed,        \* item indices in the order the workers finished them
    yielded,          \* item indices in the order imap handed them to the loop
    collection,       \* build_vocab: the texts
    special_tokens,   \* build_vocab: the reserved tokens, in declaration order
    max_vocab_size,   \* build_vocab: the cap, or None
    freqs,            \* build_vocab: the Counter, as (token, weight) in insertion order
    vocab,            \* build_vocab: the returned token -> id mapping
    calls,            \* build_vocab: 1 in the first call, 2 in the second
    first_vocab,      \* build_vocab: what the first call returned
    vocab_tokens,     \* compute_idfs: the vocab argument (a set of tokens)
    documents,        \* compute_idfs: the documents argument
    dfs,              \* compute_idfs: token -> document frequency
    idfs,             \* compute_idfs: the returned token -> idf mapping
    dataset,          \* saver: [queries, docs], the texts and then their encodings
    trainset,         \* saver: [n_pos, num_neg]: len(pos_pairs), num_neg_examples
    word_to_index,    \* saver: self.word_to_index
    encoded,          \* saver: the _words_to_index calls made, [words, ok, out] each
    idx,              \* saver: _save_train_set's row index
    item,             \* saver: number of trainset items consumed
    train_out         \* saver: the hdf5 train file, [n, queries, pos_docs, neg_docs, writes]

poolVars  == <<pool, completed, yielded>>
vocabVars == <<collection, special_tokens, max_vocab_size, freqs, vocab, calls, first_vocab>>
idfVars   == <<vocab_tokens, documents, dfs, idfs>>
saverVars == <<dataset, trainset, word_to_index, encoded, idx, item, train_out>>
vars      == <<pc, poolVars, vocabVars, idfVars, saverVars>>

-----------------------------------------------------------------------------
(* Bounds and input domains *)

MaxDocs    == 2    \* texts in a collection / documents in a corpus
MaxSpecial == 2    \* length of special_tokens in Spec
MaxCorpus  == 3    \* documents given to compute_idfs
MaxItems   == 2    \* queries, and documents, of the saver's dataset
MaxPos     == 4    \* positive pairs of the trainset
MaxNeg     == 4    \* num_neg_examples of the trainset
MaxLen     == 2    \* max_query_len and max_doc_len

None == -1         \* max_vocab_size=None

UNK == "<UNK>"
PAD == "<PAD>"

\* The tokens the tokenizer produces on the sample texts.
Tokens == {UNK, PAD, "the", "cat"}

\* The sample texts, each given by its tokenization.
Texts == { <<>>, <<"the">>, <<"cat", "the">>, <<PAD, "cat">> }

\* build_vocab's default special_tokens.
DefaultSpecialTokens == <<UNK, PAD, "<EOS>", "<START>">>

Range(s) == { s[i] : i \in DOMAIN s }

SeqsUpTo(S, n) == UNION { [1..k -> S] : k \in 0..n }

\* Caps beyond the number of distinct tokens behave like the largest one.
Caps == {None} \cup (0..Cardinality(Tokens))

-----------------------------------------------------------------------------
(* collections.Counter with math.inf weights.  A weight is <<1, 0>> for    *)
(* math.inf and <<0, n>> for the integer n; a Counter is the sequence of    *)
(* its (token, weight) items in insertion order.                            *)

Inf == <<1, 0>>

WeightGe(x, y) == x[1] > y[1] \/ (x[1] = y[1] /\ x[2] >= y[2])

\* inf + 1 = inf
WeightInc(x) == IF x[1] = 1 THEN x ELSE <<0, x[2] + 1>>

Keys(c) == { c[i][1] : i \in DOMAIN c }

Pos(c, tok) == CHOOSE i \in DOMAIN c : c[i][1] = tok

Get(c, tok) == c[Pos(c, tok)][2]

\* c[tok] = w: an existing key keeps its insertion position
SetItem(c, tok, w) ==
    IF tok \in Keys(c)
    THEN [c EXCEPT ![Pos(c, tok)] = <<tok, w>>]
    ELSE Append(c, <<tok, w>>)

\* Counter.update(tokens): one count per element, in order
RECURSIVE Update(_, _)
Update(c, tokens) ==
    IF tokens = <<>> THEN c
    ELSE LET t == Head(tokens)
             w == IF t \in Keys(c) THEN WeightInc(Get(c, t)) ELSE <<0, 1>>
         IN  Update(SetItem(c, t, w), Tail(tokens))

\* for token in special_tokens: freqs[token] = math.inf
\* faulty variant: the special tokens keep their counts
ForceSpecialsFinite(c, specials) == c
RECURSIVE ForceSpecials(_, _)
ForceSpecials(c, specials) ==
    IF specials = <<>> THEN c
    ELSE ForceSpecials(SetItem(c, Head(specials), Inf), Tail(specials))

\* sorted(items, key=weight, reverse=True): stable, equal weights keep their order
\* faulty variant: no sort, the items keep their insertion order
InsertKeepOrder(s, x) == Append(s, x)
InsertDesc(s, x) ==
    LET k == Cardinality({ i \in DOMAIN s : WeightGe(s[i][2], x[2]) })
    IN  SubSeq(s, 1, k) \o <<x>> \o SubSeq(s, k + 1, Len(s))

RECURSIVE SortDesc(_)
SortDesc(c) ==
    IF c = <<>> THEN <<>>
    ELSE InsertDesc(SortDesc(SubSeq(c, 1, Len(c) - 1)), c[Len(c)])

\* Counter.most_common(n): all items when n is None, else the first n of the sort
\* faulty variant: the cap is ignored
MostCommonNoCap(c, n) == SortDesc(c)
MostCommon(c, n) ==
    LET s == SortDesc(c)
    IN  IF n = None \/ n >= Len(s) THEN s ELSE SubSeq(s, 1, n)

\* {word: i for i, word in enumerate(freqs.keys())}
Enumerate(c) == [ tok \in Keys(c) |-> Pos(c, tok) - 1 ]

\* the assertion of build_vocab
\* faulty variant: no assertion
PreconditionSkipped(specials, cap) == TRUE
PreconditionOk(specials, cap) == cap = None \/ Len(specials) <= cap

-----------------------------------------------------------------------------
(* Pool.imap: workers finish items in any order, imap yields them in the    *)
(* order of the input.  (chunksize=1024 groups items into tasks; letting     *)
(* every item finish on its own allows every order chunks can finish in.)    *)

\* faulty variant: imap_unordered, results in completion order
ReadyUnordered(done, out) == Range(done) \ Range(out)
Ready(done, out) == { i \in Range(done) : i = Len(out) + 1 }

WorkerFinish(n) ==
    /\ pool = "open"
    /\ \E i \in (1..n) \ Range(completed) :
          completed' = Append(completed, i)
    /\ UNCHANGED <<pc, pool, yielded>>

PoolReset == pool' = "none" /\ completed' = <<>> /\ yielded' = <<>>

-----------------------------------------------------------------------------
(* Values of the variables a specification does not use *)

IdleVocab ==
    /\ collection = <<>> /\ special_tokens = <<>> /\ max_vocab_size = None
    /\ freqs = <<>> /\ vocab = <<>> /\ calls = 1 /\ first_vocab = <<>>

IdleIdf == vocab_tokens = {} /\ documents = <<>> /\ dfs = <<>> /\ idfs = <<>>

NoFile == [n |-> 0, queries |-> <<>>, pos_docs |-> <<>>, neg_docs |-> <<>>, writes |-> <<>>]

IdleSaver ==
    /\ dataset = [queries |-> <<>>, docs |-> <<>>]
    /\ trainset = [n_pos |-> 0, num_neg |-> 0]
    /\ word_to_index = <<>>
    /\ encoded = <<>>
    /\ idx = 0 /\ item = 0
    /\ train_out = NoFile

-----------------------------------------------------------------------------
(* build_vocab (src/util/text.py) *)

SpecialCandidates == {UNK, PAD}

Init ==
    /\ pc = "start"
    /\ pool = "none" /\ completed = <<>> /\ yielded = <<>>
    /\ collection \in SeqsUpTo(Texts, MaxDocs)
    /\ special_tokens \in SeqsUpTo(SpecialCandidates, MaxSpecial)
    /\ max_vocab_size \in Caps
    /\ freqs = <<>> /\ vocab = <<>> /\ calls = 1 /\ first_vocab = <<>>
    /\ IdleIdf /\ IdleSaver

\* lines 25-29: the assertion, then freqs = Counter()
VocabAssert ==
    /\ pc = "start"
    /\ IF PreconditionOk(special_tokens, max_vocab_size)
       THEN pc' = "pool"
       ELSE pc' = "failed"
    /\ UNCHANGED <<poolVars, vocabVars, idfVars, saverVars>>

\* line 31: with Pool(processes=None) as p
VocabPoolOpen ==
    /\ pc = "pool"
    /\ pool' = "open" /\ pc' = "imap"
    /\ UNCHANGED <<completed, yielded, vocabVars, idfVars, saverVars>>

\* a worker returns tokenizer.tokenize(item)
VocabWorker ==
    /\ pc = "imap"
    /\ WorkerFinish(Len(collection))
    /\ UNCHANGED <<vocabVars, idfVars, saverVars>>

\* lines 32-33: one iteration of the loop over p.imap
VocabConsume ==
    /\ pc = "imap"
    /\ \E i \in Ready(completed, yielded) :
          /\ yielded' = Append(yielded, i)
          /\ freqs' = Update(freqs, collection[i])
    /\ UNCHANGED <<pc, pool, completed, collection, special_tokens, max_vocab_size,
                   vocab, calls, first_vocab, idfVars, saverVars>>

\* the loop ends and the with block closes the pool
VocabPoolClose ==
    /\ pc = "imap"
    /\ Len(yielded) = Len(collection)
    /\ pool' = "closed" /\ pc' = "rank"
    /\ UNCHANGED <<completed, yielded, vocabVars, idfVars, saverVars>>

\* lines 35-40
VocabRank ==
    /\ pc = "rank"
    /\ freqs' = MostCommon(ForceSpecials(freqs, special_tokens), max_vocab_size)
    /\ vocab' = Enumerate(freqs')
    /\ pc' = "done"
    /\ UNCHANGED <<poolVars, collection, special_tokens, max_vocab_size, calls,
                   first_vocab, idfVars, saverVars>>

\* the caller calls build_vocab again with the same arguments
VocabCallAgain ==
    /\ pc = "done" /\ calls = 1
    /\ first_vocab' = vocab /\ calls' = 2
    /\ pc' = "start" /\ PoolReset
    /\ freqs' = <<>> /\ vocab' = <<>>
    /\ UNCHANGED <<collection, special_tokens, max_vocab_size, idfVars, saverVars>>

Next ==
    \/ VocabAssert
    \/ VocabPoolOpen
    \/ VocabWorker
    \/ VocabConsume
    \/ VocabPoolClose
    \/ VocabRank
    \/ VocabCallAgain

Spec == Init /\ [][Next]_vars

Specials == Range(special_tokens)

\* occurrences of tok in the whole collection
RECURSIVE CountIn(_, _)
CountIn(tok, tokens) ==
    IF tokens = <<>> THEN 0
    ELSE (IF Head(tokens) = tok THEN 1 ELSE 0) + CountIn(tok, Tail(tokens))

RECURSIVE Freq(_, _)
Freq(tok, coll) ==
    IF coll = <<>> THEN 0 ELSE CountIn(tok, Head(coll)) + Freq(tok, Tail(coll))

Returned == pc = "done"

Size == Cardinality(DOMAIN vocab)

NoRepeat(s) == \A i, j \in DOMAIN s : s[i] = s[j] => i = j

\* a token of the collection that the cap left out of the vocabulary
Evicted(tok) == Freq(tok, collection) > 0 /\ tok \notin DOMAIN vocab

(* C2, as claimed: a returned vocabulary has at most max_vocab_size entries *)
(* when a cap is given, and at least len(special_tokens) entries.           *)
C2_SizeAtLeastLenSpecials ==
    Returned =>
        /\ max_vocab_size # None => Size <= max_vocab_size
        /\ Size >= Len(special_tokens)

(* C2, amended: a returned vocabulary has at most max_vocab_size entries    *)
(* when a cap is given, and at least as many entries as there are distinct  *)
(* special tokens.                                                          *)
C2_SizeBounds ==
    Returned =>
        /\ max_vocab_size # None => Size <= max_vocab_size
        /\ Size >= Cardinality(Specials)

\* the cap cuts the vocabulary, which holds the special tokens and more
C2_Witness ==
    /\ Returned
    /\ max_vocab_size # None /\ Size = max_vocab_size
    /\ Specials # {} /\ Size > Cardinality(Specials)
    /\ \E tok \in Tokens : Evicted(tok)

(* C3: in a returned vocabulary the i-th special token (0-based) has id i,  *)
(* also when the collection's texts contain special-token strings.  Stated  *)
(* for special_tokens without repeated elements.                            *)
C3_SpecialsInDeclarationOrder ==
    (Returned /\ NoRepeat(special_tokens)) =>
        \A i \in DOMAIN special_tokens :
            /\ special_tokens[i] \in DOMAIN vocab
            /\ vocab[special_tokens[i]] = i - 1

(* C4: every special token is in a returned vocabulary, with an id smaller  *)
(* than the id of every non-special token of the vocabulary.                *)
C4_SpecialsKeptAndLowest ==
    Returned =>
        \A s \in Specials :
            /\ s \in DOMAIN vocab
            /\ \A tok \in (DOMAIN vocab) \ Specials : vocab[s] < vocab[tok]

\* a capped call that evicts a token while a special token occurs in the texts
C4_Witness ==
    /\ Returned
    /\ max_vocab_size # None
    /\ \E s \in Specials : Freq(s, collection) > 0
    /\ (DOMAIN vocab) \ Specials # {}
    /\ \E tok \in Tokens : Evicted(tok)

(* C5: the second call of build_vocab on the same arguments returns the     *)
(* mapping the first call returned, whatever order the workers finish in.   *)
C5_SecondCallSameVocab ==
    (Returned /\ calls = 2) => vocab = first_vocab

\* the second call's workers finished out of order, and two equally frequent
\* tokens sit on either side of the cap
C5_Witness ==
    /\ Returned /\ calls = 2
    /\ Len(completed) >= 2 /\ completed[1] # 1
    /\ \E a \in (DOMAIN vocab) \ Specials : \E b \in Tokens \ Specials :
          Evicted(b) /\ Freq(a, collection) = Freq(b, collection)

(* C6: of two non-special tokens of the collection, the more frequent one   *)
(* is in the vocabulary whenever the less frequent one is, with a lower id. *)
C6_FrequentFirst ==
    Returned =>
        \A a, b \in Tokens \ Specials :
            (/\ Freq(a, collection) > Freq(b, collection)
             /\ Freq(b, collection) > 0
             /\ b \in DOMAIN vocab)
            => (a \in DOMAIN vocab /\ vocab[a] < vocab[b])

\* "cat" is counted first and "the" more often: "the" gets the lower id
C6_Witness ==
    /\ Returned
    /\ collection = << <<"cat", "the">>, <<"the">> >>
    /\ special_tokens = <<UNK>>
    /\ vocab[UNK] = 0
    /\ "cat" \in DOMAIN vocab
    /\ vocab["the"] < vocab["cat"]

(* C7: with a cap smaller than len(special_tokens) the call fails at the    *)
(* assertion: no pool is created, no item is tokenized, nothing is returned.*)
C7_FailsBeforeWork ==
    (max_vocab_size # None /\ max_vocab_size < Len(special_tokens)) =>
        /\ pc \in {"start", "failed"}
        /\ pool = "none" /\ completed = <<>> /\ yielded = <<>>
        /\ vocab = <<>> /\ calls = 1

C7_Witness ==
    /\ pc = "failed"
    /\ collection # <<>>
    /\ max_vocab_size < Len(special_tokens)

-----------------------------------------------------------------------------
(* compute_idfs (src/util/text.py) *)

\* doc_to_bow: set(tokenizer.tokenize(document))
DocToBow(document) == Range(document)

\* for word in bow_doc: dfs[word] += 1, when every word is a key of dfs
DfsAdd(d, bow) == [ w \in DOMAIN d |-> IF w \in bow THEN d[w] + 1 ELSE d[w] ]

(* _idf: np.log(n_docs / (term_freq + 1)) / np.log(n_docs), as numpy computes *)
(* it.  A finite value log(p/q)/log(base) is kept as the exact triple; a zero *)
(* divisor gives nan (0/0, inf/inf) or -inf (negative/0).                      *)
\* faulty variant: the ratio upside down, log((term_freq + 1) / n_docs) / log(n_docs)
IdfInverted(term_freq, n_docs) ==
    [kind |-> "fin", p |-> term_freq + 1, q |-> n_docs, base |-> n_docs]
Idf(term_freq, n_docs) ==
    IF n_docs = 0 THEN [kind |-> "nan", p |-> 0, q |-> 1, base |-> 0]
    ELSE IF n_docs = 1
         THEN IF term_freq = 0
              THEN [kind |-> "nan", p |-> 1, q |-> 1, base |-> 1]
              ELSE [kind |-> "neginf", p |-> 1, q |-> term_freq + 1, base |-> 1]
         ELSE [kind |-> "fin", p |-> n_docs, q |-> term_freq + 1, base |-> n_docs]

\* x > y for two values over the same base >= 2 (log is increasing, log(base) > 0);
\* every comparison with nan is false
IdfGt(x, y) ==
    /\ x.kind # "nan" /\ y.kind # "nan"
    /\ x.kind # "neginf"
    /\ \/ y.kind = "neginf"
       \/ x.base = y.base /\ x.p * y.q > y.p * x.q

InitIdf ==
    /\ pc = "start"
    /\ pool = "none" /\ completed = <<>> /\ yielded = <<>>
    /\ vocab_tokens \in SUBSET Tokens
    /\ documents \in SeqsUpTo(Texts, MaxCorpus)
    /\ dfs = <<>> /\ idfs = <<>>
    /\ IdleVocab /\ IdleSaver

\* lines 69-74
IdfStart ==
    /\ pc = "start"
    /\ dfs' = [ w \in vocab_tokens |-> 0 ]
    /\ pc' = "pool"
    /\ UNCHANGED <<poolVars, vocab_tokens, documents, idfs, vocabVars, saverVars>>

\* line 75
IdfPoolOpen ==
    /\ pc = "pool"
    /\ pool' = "open" /\ pc' = "imap"
    /\ UNCHANGED <<completed, yielded, idfVars, vocabVars, saverVars>>

\* a worker returns doc_to_bow(document)
IdfWorker ==
    /\ pc = "imap"
    /\ WorkerFinish(Len(documents))
    /\ UNCHANGED <<idfVars, vocabVars, saverVars>>

\* lines 76-78: one iteration of the loop over p.imap.  dfs[word] raises KeyError
\* on a word that is no key; the words the set iteration met before it are counted.
IdfConsume ==
    /\ pc = "imap"
    /\ \E i \in Ready(completed, yielded) :
          LET bow == DocToBow(documents[i])
          IN  /\ yielded' = Append(yielded, i)
              /\ IF bow \subseteq DOMAIN dfs
                 THEN /\ dfs' = DfsAdd(dfs, bow)
                      /\ UNCHANGED <<pc, pool>>
                 ELSE /\ \E seen \in SUBSET (bow \cap DOMAIN dfs) : dfs' = DfsAdd(dfs, seen)
                      /\ pc' = "KeyError" /\ pool' = "closed"
    /\ UNCHANGED <<completed, vocab_tokens, documents, idfs, vocabVars, saverVars>>

IdfPoolClose ==
    /\ pc = "imap"
    /\ Len(yielded) = Len(documents)
    /\ pool' = "closed" /\ pc' = "idfs"
    /\ UNCHANGED <<completed, yielded, idfVars, vocabVars, saverVars>>

\* lines 80-87
IdfFinish ==
    /\ pc = "idfs"
    /\ idfs' = [ w \in DOMAIN dfs |-> Idf(dfs[w], Len(documents)) ]
    /\ pc' = "done"
    /\ UNCHANGED <<poolVars, vocab_tokens, documents, dfs, vocabVars, saverVars>>

NextIdf ==
    \/ IdfStart
    \/ IdfPoolOpen
    \/ IdfWorker
    \/ IdfConsume
    \/ IdfPoolClose
    \/ IdfFinish

SpecIdf == InitIdf /\ [][NextIdf]_vars

\* the number of documents whose tokenization contains tok
RECURSIVE DocFreq(_, _)
DocFreq(tok, docs) ==
    IF docs = <<>> THEN 0
    ELSE (IF tok \in Range(Head(docs)) THEN 1 ELSE 0) + DocFreq(tok, Tail(docs))

Ended == pc \in {"done", "KeyError"}

(* C1: on a non-empty sequence of documents compute_idfs returns normally,  *)
(* with exactly the vocabulary as key set, also when a document holds a     *)
(* token outside the vocabulary.                                            *)
C1_OneIdfPerVocabToken ==
    (Ended /\ Len(documents) >= 1) =>
        (pc = "done" /\ DOMAIN idfs = vocab_tokens)

(* C8, as claimed: for N >= 1 documents and vocabulary tokens A, B with     *)
(* document frequencies df_A < df_B, the returned idf(A) > idf(B).          *)
C8_IdfDecreasingFromOneDoc ==
    (pc = "done" /\ Len(documents) >= 1) =>
        \A A, B \in vocab_tokens :
            DocFreq(A, documents) < DocFreq(B, documents) => IdfGt(idfs[A], idfs[B])

(* C8, amended: for N >= 2 documents and vocabulary tokens A, B with        *)
(* document frequencies df_A < df_B, the returned idf(A) > idf(B).          *)
C8_IdfDecreasing ==
    (pc = "done" /\ Len(documents) >= 2) =>
        \A A, B \in vocab_tokens :
            DocFreq(A, documents) < DocFreq(B, documents) => IdfGt(idfs[A], idfs[B])

\* a returned table with tokens in 0, 1 and 2 of the documents, one of them in
\* as many documents as df + 1 = N
C8_Witness ==
    /\ pc = "done" /\ Len(documents) >= 2
    /\ \E A, B, C \in vocab_tokens :
          /\ DocFreq(A, documents) = 0
          /\ DocFreq(B, documents) = 1
          /\ DocFreq(C, documents) = 2
          /\ IdfGt(idfs[A], idfs[B]) /\ IdfGt(idfs[B], idfs[C])
    /\ \E D \in vocab_tokens : DocFreq(D, documents) + 1 >= Len(documents)

-----------------------------------------------------------------------------
(* Hdf5Saver / DuetHhdf5Saver (src/preprocessing/hdf5_savers.py) *)

\* build_vocab as one call: the loop over p.imap sees the items in input order
RECURSIVE UpdateAll(_, _)
UpdateAll(c, coll) ==
    IF coll = <<>> THEN c ELSE UpdateAll(Update(c, Head(coll)), Tail(coll))

BuildVocab(coll, specials, cap) ==
    IF PreconditionOk(specials, cap)
    THEN [ok |-> TRUE,
          vocab |-> Enumerate(MostCommon(ForceSpecials(UpdateAll(<<>>, coll), specials), cap))]
    ELSE [ok |-> FALSE, vocab |-> <<>>]

\* compute_idfs as one call: KeyError when a document holds a word outside vocab
ComputeIdfs(words, docs) ==
    IF \A i \in DOMAIN docs : DocToBow(docs[i]) \subseteq words
    THEN [ok |-> TRUE, idfs |-> [ w \in words |-> Idf(DocFreq(w, docs), Len(docs)) ]]
    ELSE [ok |-> FALSE, idfs |-> <<>>]

\* _words_to_index: the id of each word, the id of unknown_token for a word that
\* is no key; KeyError when unknown_token is no key either
\* faulty variant: no except clause
WordsToIndexNoFallback(w2i, words, unknown_token) ==
    IF \A i \in DOMAIN words : words[i] \in DOMAIN w2i
    THEN [ok |-> TRUE, ids |-> [ i \in DOMAIN words |-> w2i[words[i]] ]]
    ELSE [ok |-> FALSE, ids |-> <<>>]
WordsToIndex(w2i, words, unknown_token) ==
    IF \A i \in DOMAIN words : words[i] \in DOMAIN w2i \/ unknown_token \in DOMAIN w2i
    THEN [ok |-> TRUE,
          ids |-> [ i \in DOMAIN words |->
                      IF words[i] \in DOMAIN w2i THEN w2i[words[i]] ELSE w2i[unknown_token] ]]
    ELSE [ok |-> FALSE, ids |-> <<>>]

\* s[:n]
Truncate(s, n) == IF Len(s) <= n THEN s ELSE SubSeq(s, 1, n)

\* one _words_to_index call, as the constructor's transforms make it
Call(words) ==
    LET r == WordsToIndex(word_to_index, words, UNK)
    IN  [words |-> words, ok |-> r.ok, out |-> r.ids]

\* _n_out_samples, for a Trainset
NOutSamples(n_pos, num_neg) == n_pos * num_neg

\* _define_trainset: three datasets of n_out_examples rows, none written
DefineTrainset(n) ==
    [n |-> n,
     queries  |-> [ r \in 1..n |-> <<>> ],
     pos_docs |-> [ r \in 1..n |-> <<>> ],
     neg_docs |-> [ r \in 1..n |-> <<>> ],
     writes   |-> [ r \in 1..n |-> 0 ]]

\* fp['queries'][idx] = query; fp['pos_docs'][idx] = pos_doc; fp['neg_docs'][idx] = neg_ids
\* (idx counts from 0).  Item p's query and positive document are tagged p, its k-th
\* negative document <<p, k>>.
WriteRow(fp, i, p, k) ==
    [fp EXCEPT !.queries[i + 1]  = <<"q", p>>,
               !.pos_docs[i + 1] = <<"pos", p>>,
               !.neg_docs[i + 1] = <<"neg", p, k>>,
               !.writes[i + 1]   = @ + 1]

\* _save_train_row: for neg_ids in neg_docs, write the triplet at row idx
RECURSIVE SaveTrainRow(_, _, _, _)
SaveTrainRow(fp, p, num_neg, i) ==
    IF num_neg = 0 THEN fp
    ELSE WriteRow(SaveTrainRow(fp, p, num_neg - 1, i), i, p, num_neg)

\* caps around the number of default special tokens
SaverCaps ==
    {None} \cup ((Len(DefaultSpecialTokens) - 1)..(Len(DefaultSpecialTokens) + 2))

InitSaver ==
    /\ pc = "start"
    /\ pool = "none" /\ completed = <<>> /\ yielded = <<>>
    /\ dataset \in [queries : SeqsUpTo(Texts, MaxItems),
                    docs    : SeqsUpTo(Texts, MaxItems)]
    /\ trainset = [n_pos |-> 0, num_neg |-> 0]
    /\ max_vocab_size \in SaverCaps
    /\ word_to_index = <<>>
    /\ encoded = <<>>
    /\ idx = 0 /\ item = 0
    /\ train_out = NoFile
    /\ collection = <<>> /\ special_tokens = DefaultSpecialTokens
    /\ freqs = <<>> /\ vocab = <<>> /\ calls = 1 /\ first_vocab = <<>>
    /\ IdleIdf

\* Hdf5Saver.__init__ -> _build_vocab (lines 82-87)
SaverBuildVocab ==
    /\ pc = "start"
    /\ collection' = dataset.queries \o dataset.docs
    /\ LET r == BuildVocab(collection', special_tokens, max_vocab_size)
       IN  /\ word_to_index' = r.vocab
           /\ pc' = IF r.ok THEN "vocab" ELSE "AssertionError"
    /\ UNCHANGED <<poolVars, special_tokens, max_vocab_size, freqs, vocab, calls,
                   first_vocab, idfVars, dataset, trainset, encoded, idx, item,
                   train_out>>

\* DuetHhdf5Saver.__init__, lines 185-190: idfs by token, then by token id
SaverComputeIdfs ==
    /\ pc = "vocab"
    /\ vocab_tokens' = DOMAIN word_to_index
    /\ LET r == ComputeIdfs(vocab_tokens', dataset.docs)
       IN  /\ idfs' = IF r.ok
                      THEN [ i \in { word_to_index[w] : w \in vocab_tokens' } |->
                               r.idfs[CHOOSE w \in vocab_tokens' : word_to_index[w] = i] ]
                      ELSE <<>>
           /\ pc' = IF r.ok THEN "idfs" ELSE "KeyError"
    /\ UNCHANGED <<poolVars, vocabVars, documents, dfs, saverVars>>

\* lines 192-194: transform_docs, then transform_queries
SaverTransform ==
    /\ pc = "idfs"
    /\ \E max_doc_len, max_query_len \in 1..MaxLen :
          LET doc_calls   == [ i \in DOMAIN dataset.docs |-> Call(dataset.docs[i]) ]
              query_calls == [ i \in DOMAIN dataset.queries |->
                                 Call(Truncate(dataset.queries[i], max_query_len)) ]
          IN  /\ encoded' = doc_calls \o query_calls
              /\ IF \A i \in DOMAIN encoded' : encoded'[i].ok
                 THEN /\ dataset' =
                            [dataset EXCEPT
                               !.docs = [ i \in DOMAIN doc_calls |->
                                            Truncate(doc_calls[i].out, max_doc_len) ],
                               !.queries = [ i \in DOMAIN query_calls |-> query_calls[i].out ]]
                      /\ pc' = "ready"
                 ELSE /\ pc' = "KeyError"
                      /\ UNCHANGED dataset
    /\ UNCHANGED <<poolVars, vocabVars, idfVars, trainset, word_to_index, idx, item,
                   train_out>>

NextSaver ==
    \/ SaverBuildVocab
    \/ SaverComputeIdfs
    \/ SaverTransform

SpecSaver == InitSaver /\ [][NextSaver]_vars

VocabBuilt == pc \notin {"start", "AssertionError"}

Ids == { word_to_index[w] : w \in DOMAIN word_to_index }

(* C9: on a saver whose vocabulary _build_vocab built, every                *)
(* _words_to_index call succeeds and returns a list as long as its input:   *)
(* word_to_index[words[i]] for a word of the vocabulary and the id of       *)
(* '<UNK>' for any other, so every id is an id of the vocabulary.           *)
C9_EncodingNeverFails ==
    VocabBuilt =>
        /\ UNK \in DOMAIN word_to_index
        /\ pc = "KeyError" => encoded = <<>>    \* raised by compute_idfs, not by a call
        /\ \A c \in DOMAIN encoded :
              LET call == encoded[c]
              IN  /\ call.ok
                  /\ Len(call.out) = Len(call.words)
                  /\ \A i \in DOMAIN call.words :
                        /\ call.out[i] \in Ids
                        /\ call.out[i] = IF call.words[i] \in DOMAIN word_to_index
                                         THEN word_to_index[call.words[i]]
                                         ELSE word_to_index[UNK]

\* a call that met a word of the vocabulary and a word outside it
C9_Witness ==
    /\ pc = "ready"
    /\ \E c \in DOMAIN encoded :
          /\ \E i \in DOMAIN encoded[c].words :
                encoded[c].words[i] \notin DOMAIN word_to_index
          /\ \E i \in DOMAIN encoded[c].words :
                /\ encoded[c].words[i] \in DOMAIN word_to_index
                /\ encoded[c].out[i] # word_to_index[UNK]

-----------------------------------------------------------------------------
(* The training export of a constructed saver: build_all -> _save_train_set. *)
(* The trainset yields one (query, pos_doc, neg_docs) item per positive pair, *)
(* with num_neg_examples negative documents each.                              *)

InitTrain ==
    /\ pc = "ready"
    /\ pool = "none" /\ completed = <<>> /\ yielded = <<>>
    /\ trainset \in [n_pos : 0..MaxPos, num_neg : 0..MaxNeg]
    /\ dataset = [queries |-> <<>>, docs |-> <<>>]
    /\ word_to_index = <<>> /\ encoded = <<>>
    /\ idx = 0 /\ item = 0
    /\ train_out = NoFile
    /\ IdleVocab /\ IdleIdf

\* build_all -> _save_train_set, lines 74-76
SaveTrainStart ==
    /\ pc = "ready"
    /\ train_out' = DefineTrainset(NOutSamples(trainset.n_pos, trainset.num_neg))
    /\ idx' = 0 /\ item' = 0
    /\ pc' = "saving"
    /\ UNCHANGED <<poolVars, vocabVars, idfVars, dataset, trainset, word_to_index, encoded>>

\* lines 78-80: one iteration of the loop over the trainset
SaveTrainItem ==
    /\ pc = "saving"
    /\ item < trainset.n_pos
    /\ IF trainset.num_neg > 0 /\ idx >= train_out.n
       THEN pc' = "IndexError" /\ UNCHANGED <<train_out, idx, item>>
       ELSE /\ train_out' = SaveTrainRow(train_out, item + 1, trainset.num_neg, idx)
            /\ idx' = idx + 1
            /\ item' = item + 1
            /\ pc' = pc
    /\ UNCHANGED <<poolVars, vocabVars, idfVars, dataset, trainset, word_to_index, encoded>>

\* the trainset is exhausted
SaveTrainEnd ==
    /\ pc = "saving"
    /\ item = trainset.n_pos
    /\ pc' = "exported"
    /\ UNCHANGED <<poolVars, vocabVars, idfVars, saverVars>>

NextTrain ==
    \/ SaveTrainStart
    \/ SaveTrainItem
    \/ SaveTrainEnd

SpecTrain == InitTrain /\ [][NextTrain]_vars

(* C10: after _save_train_set every one of the len(pos_pairs) *             *)
(* num_neg_examples rows has been written, each (query, pos_doc, neg_doc)   *)
(* triplet at its own row, and no row was written twice.                    *)
C10_EveryTripletHasItsRow ==
    pc = "exported" =>
        /\ train_out.n = trainset.n_pos * trainset.num_neg
        /\ \A r \in 1..train_out.n : train_out.writes[r] = 1
        /\ \A p \in 1..trainset.n_pos : \A k \in 1..trainset.num_neg :
              \E r \in 1..train_out.n :
                  /\ train_out.queries[r] = <<"q", p>>
                  /\ train_out.pos_docs[r] = <<"pos", p>>
                  /\ train_out.neg_docs[r] = <<"neg", p, k>>

====
